---- MODULE Spec2Model ----
(***************************************************************************)
(* Resumable HTTP download engine: download_with_auto_resume of main.py    *)
(* and of 下载器.py, with the destination file, the server and the network *)
(* as the environment.                                                     *)
(*                                                                         *)
(* The resource is the byte sequence <<1, 2, ..., resLen>>; a byte 0 is a  *)
(* byte that does not come from the resource.  The destination file is     *)
(* (fexists, fdata).  One invocation runs from pc = "probe" to pc = "done";*)
(* Reinvoke starts the program again on the same file.                     *)
(***************************************************************************)
EXTENDS Integers, Sequences, FiniteSets, TLC

\* ---------------------------------------------------------------- bounds
MaxSize == 3        \* largest resource length
MaxChunk == 2       \* largest block iter_content yields (4096 in the code)
MaxAttempts == 3    \* cap of attempt_count within one invocation
MaxRuns == 2        \* invocations of the program on the same file

\* ------------------------------------------------------- program constants
HeaderLen == 1024   \* f.read(1024) of check_file_integrity

VARIABLES
    variant,        \* "main" (main.py) or "downloader" (下载器.py)
    resLen,         \* length of the resource on the server
    honours,        \* the server answers Range: bytes=k- from position k
    fexists, fdata, \* the destination file: os.path.exists, its bytes
    pc,             \* position in download_with_auto_resume
    file_size,      \* local file_size (0: unknown, 下载器.py only)
    resume_pos,     \* local resume_pos
    attempt_count,  \* local attempt_count
    success,        \* local success
    mode,           \* local mode: "ab", "wb" ("" before the first open)
    downloaded_in_this_attempt,
    chunk,          \* length of the block written and not yet counted
    body,           \* bytes of the response not yet read
    result,         \* "pending" | "True" | "False" | "None" | "KeyboardInterrupt"
    exitVia,        \* the code path that ended the invocation
    run,            \* number of this invocation
    gets,           \* content GET requests issued in this invocation
    lastRange,      \* k of the last 'Range: bytes=k-' sent (-1: none)
    startSize,      \* on-disk size when the last GET was sent (-1: no file)
    resumeAt,       \* file size left by a cancelled previous invocation (-1: none)
    probe,          \* answer of the HEAD: "none" | "failed" | "sized" | "nosize"
    branch,         \* branch the check of the file took in this iteration
    failedAt,       \* file size a failed attempt left, until the next open (-1: none)
    prevResult,     \* result of the previous invocation ("none": there is none)
    prevVia,        \* exitVia of the previous invocation
    foreign         \* the file found at the first start held other bytes than the resource's

env == <<variant, resLen, honours>>
file == <<fexists, fdata>>
locals == <<file_size, resume_pos, attempt_count, success, mode,
            downloaded_in_this_attempt, chunk, body>>
hist == <<run, gets, lastRange, startSize, prevResult, prevVia, foreign>>
marks == <<probe, branch, failedAt>>
vars == <<variant, resLen, honours, fexists, fdata, pc, file_size, resume_pos,
          attempt_count, success, mode, downloaded_in_this_attempt, chunk,
          body, result, exitVia, run, gets, lastRange, startSize, resumeAt,
          probe, branch, failedAt, prevResult, prevVia, foreign>>

\* ---------------------------------------------------------------- helpers
Min(a, b) == IF a < b THEN a ELSE b

\* bytes lo..hi of the resource (positions counted from 1)
Resource(lo, hi) == [i \in 1..(IF hi >= lo THEN hi - lo + 1 ELSE 0) |-> lo + i - 1]

\* n bytes that are not the resource's
Junk(n) == [i \in 1..n |-> 0]

\* os.path.getsize
getsize(data) == Len(data)

\* the size of the destination file, 0 when there is none
OnDisk == IF fexists THEN getsize(fdata) ELSE 0

\* faulty variant: the sizes are compared and the header is never read
check_file_integrity_SizeOnly(exists, data, expected_size) ==
    IF ~exists THEN FALSE
    ELSE IF getsize(data) = expected_size THEN TRUE ELSE FALSE

\* check_file_integrity(file_path, expected_size)
check_file_integrity(exists, data, expected_size) ==
    IF ~exists THEN FALSE
    ELSE IF getsize(data) = expected_size
         THEN LET header == SubSeq(data, 1, Min(HeaderLen, Len(data)))
              IN  IF Len(header) = 0 THEN FALSE ELSE TRUE
         ELSE FALSE

\* the files the program can find at its first start
InitialFiles ==
    {<<FALSE, <<>>>>}
      \cup {<<TRUE, Resource(1, k)>> : k \in 0..MaxSize}
      \cup {<<TRUE, Junk(k)>> : k \in 1..(MaxSize + 1)}

Init ==
    /\ variant \in {"main", "downloader"}
    /\ resLen \in 1..MaxSize
    /\ honours \in BOOLEAN
    /\ \E f \in InitialFiles :
          /\ fexists = f[1]
          /\ fdata = f[2]
          /\ (f[1] /\ Len(f[2]) > 0 /\ f[2][1] # 0) => Len(f[2]) <= resLen
          /\ foreign = (f[1] /\ f[2] # Resource(1, Len(f[2])))
    /\ pc = "probe"
    /\ file_size = 0
    /\ resume_pos = 0
    /\ attempt_count = 0
    /\ success = FALSE
    /\ mode = ""
    /\ downloaded_in_this_attempt = 0
    /\ chunk = 0
    /\ body = <<>>
    /\ result = "pending"
    /\ exitVia = "none"
    /\ run = 1
    /\ gets = 0
    /\ lastRange = -1
    /\ startSize = -1
    /\ resumeAt = -1
    /\ probe = "none"
    /\ branch = "none"
    /\ failedAt = -1
    /\ prevResult = "none"
    /\ prevVia = "none"

\* return of download_with_auto_resume: value v through code path via;
\* left is the file size a cancelled stream leaves behind (-1 otherwise)
Return(v, via, left) ==
    /\ pc' = "done"
    /\ result' = v
    /\ exitVia' = via
    /\ resumeAt' = left

Goto(label) ==
    /\ pc' = label
    /\ UNCHANGED <<result, exitVia, resumeAt>>

\* ------------------------------------------------------------ step 1: probe
\* requests.head raises, or raise_for_status raises: every except branch
\* returns False
\* faulty variant: a failed probe is taken for an unknown size
OnProbeErrorContinue ==
    /\ file_size' = 0
    /\ resume_pos' = 0
    /\ attempt_count' = 0
    /\ success' = FALSE
    /\ Goto("loop")
    /\ UNCHANGED <<mode, downloaded_in_this_attempt, chunk, body>>

OnProbeError ==
    /\ Return("False", "probe_fail", -1)
    /\ UNCHANGED locals

ProbeFail ==
    /\ pc = "probe"
    /\ probe' = "failed"
    /\ OnProbeError
    /\ UNCHANGED <<env, file, hist, branch, failedAt>>

\* HEAD answers with Content-Length: resLen
ProbeSized ==
    /\ pc = "probe"
    /\ probe' = "sized"
    /\ file_size' = resLen
    /\ resume_pos' = 0
    /\ attempt_count' = 0
    /\ success' = FALSE
    /\ Goto("loop")
    /\ UNCHANGED <<env, file, mode, downloaded_in_this_attempt, chunk, body, hist,
                   branch, failedAt>>

\* faulty variant: 下载器.py gives up like main.py when no size is declared
OnNoSizeFatal(v) == "return"

\* 'if file_size == 0': main.py 158-161 prints and returns False,
\* 下载器.py 182-194 goes on to the ranged fallback GET
OnNoSize(v) == IF v = "main" THEN "return" ELSE "fallback"

\* HEAD answers without Content-Length (or with 0)
ProbeNoSize ==
    /\ pc = "probe"
    /\ probe' = "nosize"
    /\ file_size' = 0
    /\ IF OnNoSize(variant) = "return"
       THEN Return("False", "no_size", -1)
       ELSE Goto("fallback")
    /\ UNCHANGED <<env, file, resume_pos, attempt_count, success, mode,
                   downloaded_in_this_attempt, chunk, body, hist, branch, failedAt>>

\* 下载器.py: GET with Range: bytes=0-1023; the total of Content-Range, when
\* the answer has one and it is a number, becomes file_size
FallbackSized ==
    /\ pc = "fallback"
    /\ honours
    /\ file_size' = resLen
    /\ resume_pos' = 0
    /\ attempt_count' = 0
    /\ success' = FALSE
    /\ Goto("loop")
    /\ UNCHANGED <<env, file, mode, downloaded_in_this_attempt, chunk, body, hist,
                   marks>>

\* 下载器.py: the fallback raises, or has no usable Content-Range: file_size
\* stays 0 (unknown) and the download goes on
FallbackUnknown ==
    /\ pc = "fallback"
    /\ file_size' = 0
    /\ resume_pos' = 0
    /\ attempt_count' = 0
    /\ success' = FALSE
    /\ Goto("loop")
    /\ UNCHANGED <<env, file, mode, downloaded_in_this_attempt, chunk, body, hist,
                   marks>>

\* ------------------------------------------- step 3: the check of the file
\* Faulty variants of Existing, used to show what the properties detect:
\* a complete file is not trusted and is downloaded again
ExistingRedownload(v, exists, data, fsz) ==
    IF ~exists THEN "absent"
    ELSE IF v = "main" \/ fsz > 0
         THEN IF getsize(data) >= fsz THEN "corrupt" ELSE "partial"
         ELSE "unknown"

\* an oversized file is kept and resumed instead of removed
ExistingKeepCorrupt(v, exists, data, fsz) ==
    IF ~exists THEN "absent"
    ELSE IF v = "main" \/ fsz > 0
         THEN IF check_file_integrity(exists, data, fsz)
              THEN "complete" ELSE "partial"
         ELSE "unknown"

\* a partial file is removed and the download starts over
ExistingRestart(v, exists, data, fsz) ==
    IF ~exists THEN "absent"
    ELSE IF v = "main" \/ fsz > 0
         THEN IF check_file_integrity(exists, data, fsz)
              THEN "complete" ELSE "corrupt"
         ELSE "unknown"

\* a file is resumed although the size is unknown
ExistingResumeUnknown(v, exists, data, fsz) ==
    IF ~exists THEN "absent"
    ELSE IF fsz > 0 /\ getsize(data) >= fsz
         THEN IF check_file_integrity(exists, data, fsz)
              THEN "complete" ELSE "corrupt"
         ELSE "partial"

\* The branch lines 181-196 (main.py) / 247-271 (下载器.py) take for a file
\* (exists, data) and a declared size fsz:
\*   "complete": size >= fsz and the integrity check passes
\*   "corrupt":  size >= fsz and the integrity check fails
\*   "partial":  size < fsz
\*   "unknown":  下载器.py with file_size = 0: the file is removed
\*   "absent":   there is no file
Existing(v, exists, data, fsz) ==
    IF ~exists THEN "absent"
    ELSE IF v = "main" \/ fsz > 0
         THEN IF getsize(data) >= fsz
              THEN IF check_file_integrity(exists, data, fsz)
                   THEN "complete" ELSE "corrupt"
              ELSE "partial"
         ELSE "unknown"

\* 'if resume_pos >= file_size' (main.py 199), 'if file_size > 0 and
\* resume_pos >= file_size' (下载器.py 274)
SkipCompleted(v, pos, fsz) ==
    IF v = "main" THEN pos >= fsz ELSE fsz > 0 /\ pos >= fsz

\* the end of the check: success without a request, or on to the request
AfterCheck(pos) ==
    IF SkipCompleted(variant, pos, file_size)
    THEN /\ success' = TRUE
         /\ Return("True", "skip", -1)
    ELSE /\ success' = FALSE
         /\ Goto("request")

\* faulty variant: the loop gives up after a maximum number of attempts
LoopHeadBounded ==
    /\ pc = "loop"
    /\ ~success
    /\ attempt_count < MaxAttempts - 1
    /\ attempt_count' = attempt_count + 1

\* 'while not success: attempt_count += 1'; the function has no parameter
\* that limits the attempts (MaxAttempts only bounds the model)
LoopHead ==
    /\ pc = "loop"
    /\ ~success
    /\ attempt_count < MaxAttempts
    /\ attempt_count' = attempt_count + 1

AlreadyComplete ==
    /\ LoopHead
    /\ Existing(variant, fexists, fdata, file_size) = "complete"
    /\ branch' = "complete"
    /\ UNCHANGED <<probe, failedAt>>
    /\ success' = TRUE
    /\ Return("True", "complete", -1)
    /\ UNCHANGED <<env, file, file_size, resume_pos, mode,
                   downloaded_in_this_attempt, chunk, body, hist>>

CorruptDiscard ==
    /\ LoopHead
    /\ Existing(variant, fexists, fdata, file_size) = "corrupt"
    /\ branch' = "corrupt"
    /\ UNCHANGED <<probe, failedAt>>
    /\ fexists' = FALSE
    /\ fdata' = <<>>
    /\ resume_pos' = 0
    /\ AfterCheck(0)
    /\ UNCHANGED <<env, file_size, mode, downloaded_in_this_attempt, chunk,
                   body, hist>>

PartialResume ==
    /\ LoopHead
    /\ Existing(variant, fexists, fdata, file_size) = "partial"
    /\ branch' = "partial"
    /\ UNCHANGED <<probe, failedAt>>
    /\ resume_pos' = getsize(fdata)
    /\ AfterCheck(getsize(fdata))
    /\ UNCHANGED <<env, file, file_size, mode, downloaded_in_this_attempt,
                   chunk, body, hist>>

UnknownDiscard ==
    /\ LoopHead
    /\ Existing(variant, fexists, fdata, file_size) = "unknown"
    /\ branch' = "unknown"
    /\ UNCHANGED <<probe, failedAt>>
    /\ fexists' = FALSE
    /\ fdata' = <<>>
    /\ resume_pos' = 0
    /\ AfterCheck(0)
    /\ UNCHANGED <<env, file_size, mode, downloaded_in_this_attempt, chunk,
                   body, hist>>

NoExistingFile ==
    /\ LoopHead
    /\ Existing(variant, fexists, fdata, file_size) = "absent"
    /\ branch' = "absent"
    /\ UNCHANGED <<probe, failedAt>>
    /\ resume_pos' = 0
    /\ AfterCheck(0)
    /\ UNCHANGED <<env, file, file_size, mode, downloaded_in_this_attempt,
                   chunk, body, hist>>

\* ------------------------------------------------------ step 4: the request
\* faulty variant: the whole resource is requested again
RangeStartZero(pos) == 0

\* faulty variant: a resumed request starts one byte too far
RangeStartNext(pos) == IF pos > 0 THEN pos + 1 ELSE 0

\* headers = {'Range': f'bytes={resume_pos}-'}
RangeStart(pos) == pos

\* what the server sends for Range: bytes=k-
ServerBody(k) ==
    IF honours THEN Resource(k + 1, resLen) ELSE Resource(1, resLen)

Sent(k) ==
    /\ gets' = gets + 1
    /\ lastRange' = k
    /\ startSize' = IF fexists THEN getsize(fdata) ELSE -1
    /\ UNCHANGED <<run, prevResult, prevVia, foreign>>

\* session.get answers 2xx; the body is still to be read
RequestOk ==
    /\ pc = "request"
    /\ ~(honours /\ RangeStart(resume_pos) >= resLen)
    /\ Sent(RangeStart(resume_pos))
    /\ body' = ServerBody(RangeStart(resume_pos))
    /\ Goto("open")
    /\ UNCHANGED <<env, file, file_size, resume_pos, attempt_count, success,
                   mode, downloaded_in_this_attempt, chunk, marks>>

\* session.get or raise_for_status raises a RequestException: the handler
\* prints the progress and sleeps
RequestFail ==
    /\ pc = "request"
    /\ Sent(RangeStart(resume_pos))
    /\ failedAt' = OnDisk
    /\ Goto("sleep")
    /\ UNCHANGED <<env, file, locals, probe, branch>>

\* ------------------------------------------------------- step 5: the stream
\* faulty variant: the file is always truncated
OpenModeTruncate(pos) == "wb"

\* mode = 'ab' if resume_pos > 0 else 'wb'
OpenMode(pos) == IF pos > 0 THEN "ab" ELSE "wb"

\* open(file_path, mode): 'wb' creates or truncates, 'ab' creates or keeps
Opened(m, data) == IF m = "wb" THEN <<>> ELSE data

OpenFile ==
    /\ pc = "open"
    /\ mode' = OpenMode(resume_pos)
    /\ fexists' = TRUE
    /\ fdata' = Opened(OpenMode(resume_pos), fdata)
    /\ downloaded_in_this_attempt' = 0
    /\ failedAt' = -1
    /\ Goto("stream")
    /\ UNCHANGED <<probe, branch>>
    /\ UNCHANGED <<env, file_size, resume_pos, attempt_count, success, chunk,
                   body, hist>>

\* iter_content yields a block of 1..MaxChunk bytes and f.write appends it
WriteChunk ==
    /\ pc = "stream"
    /\ body # <<>>
    /\ \E n \in 1..Min(MaxChunk, Len(body)) :
          /\ fdata' = fdata \o SubSeq(body, 1, n)
          /\ body' = SubSeq(body, n + 1, Len(body))
          /\ chunk' = n
    /\ Goto("advance")
    /\ UNCHANGED <<env, fexists, file_size, resume_pos, attempt_count, success,
                   mode, downloaded_in_this_attempt, hist, marks>>

\* resume_pos += len(chunk); downloaded_in_this_attempt += len(chunk)
AdvanceOffset ==
    /\ pc = "advance"
    /\ resume_pos' = resume_pos + chunk
    /\ downloaded_in_this_attempt' = downloaded_in_this_attempt + chunk
    /\ chunk' = 0
    /\ Goto("stream")
    /\ UNCHANGED <<env, file, file_size, attempt_count, success, mode, body, hist,
                   marks>>

\* the response ends after its last byte: the for loop and the with end
StreamComplete ==
    /\ pc = "stream"
    /\ body = <<>>
    /\ Goto("verify")
    /\ UNCHANGED <<env, file, locals, hist, marks>>

\* the connection closes early and the read ends without an exception
StreamCutClean ==
    /\ pc = "stream"
    /\ body # <<>>
    /\ body' = <<>>
    /\ Goto("verify")
    /\ UNCHANGED <<env, file, file_size, resume_pos, attempt_count, success,
                   mode, downloaded_in_this_attempt, chunk, hist, marks>>

\* the read raises a RequestException (reset, timeout): the with closes the
\* file, the handler prints the progress and sleeps
StreamError ==
    /\ pc = "stream"
    /\ body' = <<>>
    /\ failedAt' = OnDisk
    /\ Goto("sleep")
    /\ UNCHANGED <<env, file, file_size, resume_pos, attempt_count, success,
                   mode, downloaded_in_this_attempt, chunk, hist, probe, branch>>

\* open or f.write raises another Exception: the last handler sleeps too
OtherException ==
    /\ pc \in {"open", "stream"}
    /\ body' = <<>>
    /\ failedAt' = OnDisk
    /\ Goto("sleep")
    /\ UNCHANGED <<env, file, file_size, resume_pos, attempt_count, success,
                   mode, downloaded_in_this_attempt, chunk, hist, probe, branch>>

\* time.sleep(retry_interval) of a handler, then the while test
Sleep ==
    /\ pc = "sleep"
    /\ Goto("loop")
    /\ UNCHANGED <<env, file, locals, hist, marks>>

\* ------------------------------------------------- step 6: the verification
\* faulty variant: the end of the stream counts as success without the check
VerifyOutcomeUnchecked(v, fsz, ok) == "success"

\* faulty variant: 下载器.py takes the end of the stream as success whether
\* or not the size is known
VerifyOutcomeKnownUnchecked(v, fsz, ok) ==
    IF v = "main"
    THEN IF ok THEN "success" ELSE "retry"
    ELSE "success"

\* What follows the stream, ok being check_file_integrity(file_path, file_size):
\* main.py 251-253 breaks with success or falls to the while test;
\* 下载器.py 327-334 sets success (checked when file_size > 0, unchecked when
\* it is 0) and breaks in every case
VerifyOutcome(v, fsz, ok) ==
    IF v = "main"
    THEN IF ok THEN "success" ELSE "retry"
    ELSE IF fsz > 0
         THEN IF ok THEN "success" ELSE "break"
         ELSE "success"

Verified == check_file_integrity(fexists, fdata, file_size)

\* success = True; break; step 7 returns True
VerifySuccess ==
    /\ pc = "verify"
    /\ VerifyOutcome(variant, file_size, Verified) = "success"
    /\ success' = TRUE
    /\ Return("True", IF variant = "main" \/ file_size > 0
                      THEN "verified" ELSE "unverified", -1)
    /\ UNCHANGED <<env, file, file_size, resume_pos, attempt_count, mode,
                   downloaded_in_this_attempt, chunk, body, hist, marks>>

\* main.py: the check fails, no break: back to the while test at once
VerifyRetry ==
    /\ pc = "verify"
    /\ VerifyOutcome(variant, file_size, Verified) = "retry"
    /\ Goto("loop")
    /\ UNCHANGED <<env, file, locals, hist, marks>>

\* 下载器.py: the check fails, break with success False: step 7 returns
\* nothing (None)
VerifyBreak ==
    /\ pc = "verify"
    /\ VerifyOutcome(variant, file_size, Verified) = "break"
    /\ Return("None", "fallthrough", -1)
    /\ UNCHANGED <<env, file, locals, hist, marks>>

\* ------------------------------------------------------------- the interrupt
\* the lines of the loop inside the try
InTry == {"request", "open", "stream", "advance", "verify"}

\* the lines outside every handler of KeyboardInterrupt
OutsideTry == {"probe", "fallback", "loop", "sleep"}

\* faulty variant: the handler ends with a bare return
CancelValueNone == "None"

\* 'return False' of the KeyboardInterrupt handler (main.py 272, 下载器.py 356)
CancelValue == "False"

\* KeyboardInterrupt inside the try: the with closes the file, the handler
\* prints the progress and returns False
InterruptInTry ==
    /\ pc \in InTry
    /\ body' = <<>>
    /\ Return(CancelValue, "cancel",
              IF pc \in {"stream", "advance"} /\ file_size > 0
                    /\ getsize(fdata) < file_size
              THEN getsize(fdata) ELSE -1)
    /\ UNCHANGED <<env, file, file_size, resume_pos, attempt_count, success,
                   mode, downloaded_in_this_attempt, chunk, hist, marks>>

\* KeyboardInterrupt at a line no handler covers: it leaves the function as
\* an exception
InterruptOutsideTry ==
    /\ pc \in OutsideTry
    /\ Return("KeyboardInterrupt", "interrupt_escape", -1)
    /\ UNCHANGED <<env, file, locals, hist, marks>>

\* ---------------------------------------------------- the next invocation
\* the program is started again for the same URL: the locals are new, the
\* file is what the last invocation left
Reinvoke ==
    /\ pc = "done"
    /\ run < MaxRuns
    /\ run' = run + 1
    /\ pc' = "probe"
    /\ result' = "pending"
    /\ exitVia' = "none"
    /\ file_size' = 0
    /\ resume_pos' = 0
    /\ attempt_count' = 0
    /\ success' = FALSE
    /\ mode' = ""
    /\ downloaded_in_this_attempt' = 0
    /\ chunk' = 0
    /\ body' = <<>>
    /\ gets' = 0
    /\ lastRange' = -1
    /\ startSize' = -1
    /\ probe' = "none"
    /\ branch' = "none"
    /\ failedAt' = -1
    /\ prevResult' = result
    /\ prevVia' = exitVia
    /\ UNCHANGED <<env, file, resumeAt, foreign>>

Next ==
    \/ ProbeFail
    \/ ProbeSized
    \/ ProbeNoSize
    \/ FallbackSized
    \/ FallbackUnknown
    \/ AlreadyComplete
    \/ CorruptDiscard
    \/ PartialResume
    \/ UnknownDiscard
    \/ NoExistingFile
    \/ RequestOk
    \/ RequestFail
    \/ OpenFile
    \/ WriteChunk
    \/ AdvanceOffset
    \/ StreamComplete
    \/ StreamCutClean
    \/ StreamError
    \/ OtherException
    \/ Sleep
    \/ VerifySuccess
    \/ VerifyRetry
    \/ VerifyBreak
    \/ InterruptInTry
    \/ InterruptOutsideTry
    \/ Reinvoke

Spec == Init /\ [][Next]_vars

\* ------------------------------------------------------------------ typing
TypeOK ==
    /\ variant \in {"main", "downloader"}
    /\ resLen \in 1..MaxSize
    /\ honours \in BOOLEAN
    /\ fexists \in BOOLEAN
    /\ fdata \in Seq(0..MaxSize)
    /\ pc \in {"probe", "fallback", "loop", "request", "open", "stream",
               "advance", "verify", "sleep", "done"}
    /\ file_size \in 0..MaxSize
    /\ resume_pos \in Nat
    /\ attempt_count \in 0..MaxAttempts
    /\ success \in BOOLEAN
    /\ mode \in {"", "ab", "wb"}
    /\ downloaded_in_this_attempt \in Nat
    /\ chunk \in 0..MaxChunk
    /\ body \in Seq(1..MaxSize)
    /\ result \in {"pending", "True", "False", "None", "KeyboardInterrupt"}
    /\ run \in 1..MaxRuns
    /\ gets \in 0..MaxAttempts
    /\ lastRange \in -1..MaxSize
    /\ startSize \in Int
    /\ resumeAt \in -1..MaxSize
    /\ probe \in {"none", "failed", "sized", "nosize"}
    /\ branch \in {"none", "complete", "corrupt", "partial", "unknown", "absent"}
    /\ failedAt \in Int
    /\ prevResult \in {"none", "True", "False", "None", "KeyboardInterrupt"}
    /\ prevVia \in {"none", "probe_fail", "no_size", "skip", "complete",
                    "verified", "unverified", "fallthrough", "cancel",
                    "interrupt_escape"}
    /\ foreign \in BOOLEAN

\* ====================================================== the properties
\* a content GET is sent in this step
GetSent == gets' = gets + 1

\* the check of the file at the head of an iteration runs in this step
IterationStarts == pc = "loop" /\ attempt_count' = attempt_count + 1

\* C1: with a declared size S >= 1, every GET carries Range: bytes=k- with k
\* the size the file has on disk when the request is sent (0 when there is
\* no file), k < S, and opening the file for the response keeps the bytes
\* it has (and creates it when it is absent).
C1_ResumeFromDisk ==
    /\ [][(file_size >= 1 /\ GetSent) =>
            /\ lastRange' = OnDisk
            /\ OnDisk < file_size]_vars
    /\ [][(file_size >= 1 /\ pc = "open" /\ pc' = "stream") =>
            /\ fexists'
            /\ fdata' = (IF fexists THEN fdata ELSE <<>>)
            /\ (OnDisk > 0 => mode' = "ab")]_vars

\* a second attempt has resumed a non-empty file and opened it for append
C1_Witness ==
    /\ pc = "stream"
    /\ mode = "ab"
    /\ gets >= 2
    /\ lastRange >= 1
    /\ getsize(fdata) = lastRange
    /\ lastRange < file_size

\* C2: with a declared size S >= 1, whenever the call returns True the
\* file exists, has exactly S bytes and passes check_file_integrity.
C2_SuccessMeansComplete ==
    (result = "True" /\ file_size >= 1) =>
        /\ fexists
        /\ getsize(fdata) = file_size
        /\ check_file_integrity(fexists, fdata, file_size)

\* success after the stream of a second attempt
C2_Witness ==
    /\ result = "True"
    /\ exitVia = "verified"
    /\ gets >= 2
    /\ file_size >= 2

\* C3: an iteration that starts with a file of S bytes (S >= 1) passing the
\* integrity check ends the call with True, sends no GET and leaves the
\* file as it is.
C3_CompleteFileNoRequest ==
    [][(/\ IterationStarts
        /\ file_size >= 1
        /\ fexists
        /\ getsize(fdata) = file_size
        /\ check_file_integrity(fexists, fdata, file_size)) =>
            /\ pc' = "done"
            /\ result' = "True"
            /\ gets' = gets
            /\ fexists' = fexists
            /\ fdata' = fdata]_vars

\* the call has returned True on a complete file without any GET
C3_Witness ==
    /\ result = "True"
    /\ exitVia = "complete"
    /\ gets = 0
    /\ file_size >= 1
    /\ getsize(fdata) = file_size

\* C4: an iteration that starts with a file of at least S bytes failing the
\* integrity check removes the file and goes on, in the same iteration, to
\* a GET with Range: bytes=0- whose response is written to a new file; the
\* call does not end there.
C4_CorruptRestartsAtZero ==
    /\ [][(/\ IterationStarts
           /\ file_size >= 1
           /\ fexists
           /\ getsize(fdata) >= file_size
           /\ ~check_file_integrity(fexists, fdata, file_size)) =>
               /\ ~fexists'
               /\ resume_pos' = 0
               /\ pc' = "request"
               /\ result' = "pending"]_vars
    /\ []((branch = "corrupt" /\ file_size >= 1) =>
               /\ (pc = "request" => ~fexists /\ resume_pos = 0)
               /\ (pc = "open" => ~fexists /\ lastRange = 0)
               /\ (pc \in {"stream", "advance"} =>
                      /\ mode = "wb"
                      /\ lastRange = 0
                      /\ getsize(fdata) = downloaded_in_this_attempt + chunk))

\* after the removal of a corrupt file the new file receives bytes
C4_Witness ==
    /\ branch = "corrupt"
    /\ file_size >= 1
    /\ pc = "stream"
    /\ lastRange = 0
    /\ getsize(fdata) >= 1

\* the size of the file, -1 when there is none
SizeOrNone == IF fexists THEN getsize(fdata) ELSE -1

Interrupted == exitVia = "none" /\ exitVia' \in {"cancel", "interrupt_escape"}

\* C6: an interrupt during the stream, with k < S bytes on disk, makes the
\* call return the cancelled result (False from the KeyboardInterrupt
\* handler) at once, leaves the file with exactly its k bytes, and the first
\* GET of the next invocation (same declared size) carries Range: bytes=k-.
C6_CancelKeepsPartial ==
    /\ [][(/\ Interrupted
           /\ pc \in {"stream", "advance"}
           /\ file_size >= 1
           /\ OnDisk < file_size) =>
               /\ pc' = "done"
               /\ result' = "False"
               /\ exitVia' = "cancel"
               /\ fexists'
               /\ fdata' = fdata
               /\ resumeAt' = getsize(fdata)]_vars
    /\ [][(/\ run > 1
           /\ resumeAt >= 0
           /\ file_size >= 1
           /\ gets = 0
           /\ GetSent) =>
               lastRange' = resumeAt]_vars

\* the invocation after a cancelled one has sent its first GET from the
\* size the cancelled stream left
C6_Witness ==
    /\ run = 2
    /\ pc = "open"
    /\ gets = 1
    /\ resumeAt >= 1
    /\ lastRange = resumeAt
    /\ getsize(fdata) = resumeAt

\* the attempt loop of 下载器.py runs with an unknown size
UnknownSize ==
    /\ variant = "downloader"
    /\ probe = "nosize"
    /\ file_size = 0
    /\ pc \notin {"probe", "fallback"}

\* C7: with an unknown size (下载器.py, file_size = 0) every iteration
\* removes the file it finds before the request, so every GET carries
\* Range: bytes=0-, the file holds only the bytes of the current attempt,
\* and a file reported complete holds only bytes of its last response.
C7_UnknownSizeStartsOver ==
    /\ [][(UnknownSize /\ IterationStarts) =>
            /\ ~fexists'
            /\ resume_pos' = 0
            /\ pc' = "request"]_vars
    /\ [](UnknownSize =>
            /\ (gets > 0 => lastRange = 0)
            /\ (pc \in {"stream", "advance", "verify"} =>
                   getsize(fdata) = downloaded_in_this_attempt + chunk)
            /\ (result = "True" =>
                   /\ fexists
                   /\ getsize(fdata) = downloaded_in_this_attempt
                   /\ \A i \in 1..Len(fdata) : fdata[i] = i))

\* a later attempt found the file of an earlier one, removed it and wrote
\* its own bytes
C7_Witness ==
    /\ UnknownSize
    /\ branch = "unknown"
    /\ attempt_count >= 2
    /\ pc = "verify"
    /\ getsize(fdata) >= 1

\* C8: a failed HEAD ends the call at once with a result that is not
\* success: no retry of the probe, no iteration of the attempt loop, no
\* GET, and the file is left as it was.
C8_ProbeFailureIsFatal ==
    /\ [](probe = "failed" =>
            /\ pc = "done"
            /\ result = "False"
            /\ exitVia = "probe_fail"
            /\ attempt_count = 0
            /\ gets = 0)
    /\ [][(probe # "failed" /\ probe' = "failed") =>
            /\ fexists' = fexists
            /\ fdata' = fdata]_vars

\* the probe failed with a partial file on disk
C8_Witness ==
    /\ probe = "failed"
    /\ pc = "done"
    /\ fexists
    /\ getsize(fdata) >= 1

\* C9 (as claimed): once the attempt loop has started, the call ends only
\* with the success result or through the user's interrupt.
C9_LoopEndsOnlyBySuccessOrCancel ==
    (pc = "done" /\ attempt_count >= 1) =>
        \/ result = "True"
        \/ exitVia \in {"cancel", "interrupt_escape"}

\* C10 (as claimed, on the final result): with a declared size S >= 1, a
\* server that honours Range and no interrupt, a call that has ended has
\* ended in success with a file of S bytes.
C10_EndsInSuccess ==
    (/\ pc = "done"
     /\ probe = "sized"
     /\ honours
     /\ exitVia \notin {"cancel", "interrupt_escape"}) =>
        /\ result = "True"
        /\ fexists
        /\ getsize(fdata) = file_size

\* C11 (as claimed): a HEAD that succeeds without a declared size never
\* ends the call as failed for that reason.
C11_NoSizeNeverFatal ==
    probe = "nosize" => ~(pc = "done" /\ exitVia = "no_size")

\* C11 (amended): after a HEAD that succeeds without a declared size,
\* 下载器.py sends the ranged fallback GET and then enters the attempt loop
\* with the size of Content-Range or with the size unknown (0); main.py
\* returns False at once, without an iteration and without a GET.
C11_NoSizeByVariant ==
    /\ [](probe = "nosize" /\ variant = "main" =>
            /\ pc = "done"
            /\ result = "False"
            /\ exitVia = "no_size"
            /\ attempt_count = 0
            /\ gets = 0)
    /\ [](probe = "nosize" /\ variant = "downloader" =>
            /\ exitVia # "no_size"
            /\ file_size \in {0, resLen}
            /\ (pc = "done" /\ attempt_count = 0 => exitVia = "interrupt_escape"))
    /\ [][(probe = "nosize" /\ pc = "fallback" /\ ~Interrupted) =>
            /\ pc' = "loop"
            /\ result' = "pending"]_vars

\* 下载器.py has entered the attempt loop with an unknown size and is about
\* to send its first GET
C11_Witness ==
    /\ variant = "downloader"
    /\ probe = "nosize"
    /\ file_size = 0
    /\ pc = "request"
    /\ attempt_count = 1
    /\ gets = 0

\* the previous invocation ended without success and not by an interrupt
PrevFailed ==
    /\ prevResult \notin {"none", "True"}
    /\ prevVia \notin {"cancel", "interrupt_escape"}

\* C12 (as claimed): the value returned on cancellation differs from the
\* value of every other non-success return, here the one the previous
\* invocation returned.
C12_CancelDistinguishable ==
    (exitVia = "cancel" /\ PrevFailed) => result # prevResult

\* C12 (amended): the KeyboardInterrupt handler returns False, the value
\* that is also returned on a fatal probe failure (and by main.py when no
\* size is declared); the cancelled result differs by value only from
\* success (True) and from the None of 下载器.py's failed verification.
C12_CancelReturnsFalse ==
    /\ (exitVia = "cancel" => result = "False")
    /\ (exitVia \in {"probe_fail", "no_size"} => result = "False")
    /\ (exitVia = "cancel" /\ prevVia \in {"probe_fail", "no_size"} =>
            result = prevResult)
    /\ (exitVia = "cancel" /\ prevVia \in {"complete", "verified", "fallthrough"} =>
            result # prevResult)

\* an invocation whose probe failed is followed by one that is cancelled,
\* and both returned the same value
C12_Witness ==
    /\ run = 2
    /\ prevVia = "probe_fail"
    /\ exitVia = "cancel"
    /\ result = prevResult

\* the check of the file of the next iteration
Iteration ==
    \/ AlreadyComplete
    \/ CorruptDiscard
    \/ PartialResume
    \/ UnknownDiscard
    \/ NoExistingFile

ExitStatus(res) == IF res = "KeyboardInterrupt" THEN 1 ELSE 0

\* C14 (as claimed): the exit status is 0 after a completed and verified
\* download, not 0 after a fatal probe failure, and 0 after a user
\* interrupt.
C14_ExitStatusReflectsOutcome ==
    pc = "done" =>
        /\ (result = "True" => ExitStatus(result) = 0)
        /\ (exitVia = "probe_fail" => ExitStatus(result) # 0)
        /\ (exitVia \in {"cancel", "interrupt_escape"} => ExitStatus(result) = 0)

\* C15 (as claimed): an attempt whose request and stream ended without an
\* error but whose file fails the verification goes to the sleep of the retry
\* interval, and every return to the while test after an attempt comes from
\* that sleep.
C15_SleepBeforeEveryRetry ==
    /\ [][(pc = "verify" /\ file_size >= 1 /\ ~Verified /\ ~Interrupted)
            => pc' = "sleep"]_vars
    /\ [][(pc # "loop" /\ pc' = "loop" /\ attempt_count >= 1)
            => pc = "sleep"]_vars

\* C16 (as claimed): a user interrupt at any point of a loop iteration (the
\* check of the existing file, the request, the stream, the sleep of a
\* failure handler) ends the function with the normal return of the
\* cancelled result and leaves the file as it is; it never escapes as an
\* exception.
C16_InterruptAlwaysCancels ==
    [][(Interrupted /\ pc \in InTry \cup {"loop", "sleep"})
        => /\ exitVia' = "cancel"
           /\ result' = "False"
           /\ fexists' = fexists
           /\ fdata' = fdata]_vars

\* C17 (as claimed): with a known size the resume offset never exceeds it,
\* also while a response longer than the rest of the resource is streamed.
C17_OffsetWithinSize == file_size >= 1 => resume_pos <= file_size

\* C18 (as claimed): when the function returns cancelled, the offset it
\* reports as saved progress is the size of the file on disk, wherever in
\* the stream the interrupt arrived.
C18_ReportedOffsetIsDiskSize == exitVia = "cancel" => resume_pos = OnDisk

\* C19 (as claimed): whenever the function has returned True, in either
\* variant and with the size known or not, the destination file exists and
\* is not empty.
C19_SuccessMeansNonEmpty == result = "True" => (fexists /\ getsize(fdata) >= 1)

\* C19 (amended): a return of True that went through check_file_integrity
\* (every success of main.py, and of 下载器.py with a known size) leaves a
\* file that exists and is not empty; the only other return of True is that
\* of 下载器.py with an unknown size, which is not checked at all.
C19_CheckedSuccessNonEmpty ==
    /\ (result = "True" /\ exitVia # "unverified")
            => (fexists /\ getsize(fdata) >= 1)
    /\ exitVia = "unverified"
            => (variant = "downloader" /\ file_size = 0 /\ result = "True")

\* 下载器.py has returned True for an unknown size with an empty file on disk
C19_Witness ==
    /\ result = "True"
    /\ exitVia = "unverified"
    /\ fexists
    /\ fdata = <<>>
    /\ gets = 1

\* ------------------------------------------ check_file_integrity by itself
\* The function applied to any file and any expected size: file_size holds
\* the argument expected_size, result the value returned.

\* the files the function can be given: none, or any content of up to
\* MaxSize + 1 bytes
IntegrityFiles ==
    {<<FALSE, <<>>>>}
      \cup {<<TRUE, d>> : d \in UNION {[1..n -> {0, 1}] : n \in 0..(MaxSize + 1)}}

IntegrityInit ==
    /\ variant \in {"main", "downloader"}
    /\ resLen = 1
    /\ honours = TRUE
    /\ \E f \in IntegrityFiles :
          /\ fexists = f[1]
          /\ fdata = f[2]
    /\ foreign = FALSE
    /\ file_size \in 0..(MaxSize + 1)
    /\ pc = "check"
    /\ resume_pos = 0
    /\ attempt_count = 0
    /\ success = FALSE
    /\ mode = ""
    /\ downloaded_in_this_attempt = 0
    /\ chunk = 0
    /\ body = <<>>
    /\ result = "pending"
    /\ exitVia = "none"
    /\ run = 1
    /\ gets = 0
    /\ lastRange = -1
    /\ startSize = -1
    /\ resumeAt = -1
    /\ probe = "none"
    /\ branch = "none"
    /\ failedAt = -1
    /\ prevResult = "none"
    /\ prevVia = "none"

\* one call: exists, getsize, open(file_path, 'rb') and read; the file is
\* only read
CheckIntegrity ==
    /\ pc = "check"
    /\ Return(IF check_file_integrity(fexists, fdata, file_size)
              THEN "True" ELSE "False", "check", -1)
    /\ UNCHANGED <<env, file, locals, hist, marks>>

IntegrityNext == CheckIntegrity

IntegritySpec == IntegrityInit /\ [][IntegrityNext]_vars

\* C20: check_file_integrity returns True exactly when the file exists, its
\* size equals the expected size and it holds at least one byte; so it
\* returns False for a missing file, for a file smaller or larger than
\* expected, and for an empty file with expected size 0. The call leaves the
\* file as it is.
C20_IntegrityExact ==
    /\ [](exitVia = "check" =>
            /\ result \in {"True", "False"}
            /\ (result = "True") <=>
                    (fexists /\ getsize(fdata) = file_size /\ getsize(fdata) >= 1)
            /\ ~fexists => result = "False"
            /\ (fexists /\ getsize(fdata) < file_size) => result = "False"
            /\ (fexists /\ getsize(fdata) > file_size) => result = "False"
            /\ (fexists /\ fdata = <<>> /\ file_size = 0) => result = "False")
    /\ [][fexists' = fexists /\ fdata' = fdata]_vars

\* the function has rejected an empty file against the expected size 0
C20_Witness ==
    /\ exitVia = "check"
    /\ fexists
    /\ fdata = <<>>
    /\ file_size = 0
    /\ result = "False"

\* C21 (as claimed): with a known size and a server that answers every
\* 'Range: bytes=k-' from position k, a return of True means that the file
\* holds the resource's bytes in order, each once.
C21_SuccessHoldsResource ==
    (honours /\ file_size >= 1 /\ result = "True")
        => (fexists /\ fdata = Resource(1, file_size))

\* C21 (amended): the same, for a destination file that at the first start
\* was absent or held a prefix of the resource; then the file is a prefix of
\* the resource in every state (no range written twice, skipped or out of
\* order, through failed attempts, resumes, deletions and new invocations),
\* and the whole resource at a return of True.
C21_EngineWritesInOrder ==
    (honours /\ ~foreign) =>
        /\ fdata = Resource(1, getsize(fdata))
        /\ (file_size >= 1 /\ result = "True")
                => (fexists /\ fdata = Resource(1, file_size))

\* a cancelled invocation left a partial file, the next one resumed it after
\* a failed attempt of its own and returned True with the whole resource
C21_Witness ==
    /\ honours
    /\ ~foreign
    /\ run = 2
    /\ prevVia = "cancel"
    /\ attempt_count >= 2
    /\ startSize >= 1
    /\ lastRange = startSize
    /\ result = "True"
    /\ exitVia = "verified"
    /\ fdata = Resource(1, file_size)

====
